---- MODULE Spec2Model ----
(***************************************************************************)
(* Model of the two translation scripts of hugo-eternal-blogs:             *)
(*   scripts/translate_content.py  (batch: main, process_file)             *)
(*   scripts/translate_local.py    (single file: main, translate_file)     *)
(* Strings the code parses (file names, language codes, response texts,    *)
(* prompt answers) are sequences of one-character strings, so that         *)
(* startswith / endswith / strip / lower / Path.stem are computed.         *)
(***************************************************************************)
EXTENDS Integers, Sequences, FiniteSets, TLC

VARIABLES
    script,            \* "batch" (translate_content.py) or "local" (translate_local.py)
    env,               \* names of the environment variables that are set
    fs,                \* the file system: path -> Post, for the files that exist
    argv,              \* translate_local.py: [filepath, no_review]
    pc,                \* position of the (single) thread of control
    all_posts,         \* main: en_posts + zh_posts
    idx,               \* main: position of the for loop in all_posts
    translated_count,  \* main
    failed_count,      \* main
    visited,           \* history: the loop's iterations, [file, outcome]
    filepath,          \* process_file / translate_file: the argument
    post,              \* ... the loaded Post
    lang,              \* ... detect_language(content)
    source_lang,
    target_lang,
    new_lang_suffix,
    output_path,
    requests,          \* history: translation requests of the current call
    prompted,          \* history: the overwrite prompt was shown in this call
    wrote,             \* history: the current call wrote output_path
    overwrite_answer,  \* history: what was typed at the overwrite prompt
    review_read,       \* history: how the review prompt's input() ended
    fsAtCall,          \* history: fs when the current call started
    reported,          \* "Translation complete!" was printed
    exit_code,         \* process exit status, NoExit while running
    tt_response,       \* translate_text in isolation: the endpoint's answer
    tt_result          \* translate_text in isolation: what the call did

mainVars == <<all_posts, idx, translated_count, failed_count, visited>>
pairVars == <<lang, source_lang, target_lang, new_lang_suffix>>
outVars == <<output_path, prompted, wrote, overwrite_answer>>
callVars == <<filepath, post, pairVars, requests, outVars, fsAtCall>>
endVars == <<reported, review_read, exit_code>>
fixedVars == <<script, env, argv>>
ttVars == <<tt_response, tt_result>>
vars == <<fixedVars, fs, pc, mainVars, callVars, endVars, ttVars>>

----------------------------------------------------------------------------
(* Bounds *)
MaxFiles == 2          \* files that exist when the script starts
MaxTextLen == 3        \* length of a text in an endpoint response

----------------------------------------------------------------------------
(* Strings as character sequences *)

StartsWith(s, p) == Len(s) >= Len(p) /\ SubSeq(s, 1, Len(p)) = p

EndsWith(s, p) == Len(s) >= Len(p) /\ SubSeq(s, Len(s) - Len(p) + 1, Len(s)) = p

Whitespace == {" ", "\n"}

RECURSIVE LStrip(_)
LStrip(s) == IF s # <<>> /\ Head(s) \in Whitespace THEN LStrip(Tail(s)) ELSE s

RECURSIVE RStrip(_)
RStrip(s) ==
    IF s # <<>> /\ s[Len(s)] \in Whitespace THEN RStrip(SubSeq(s, 1, Len(s) - 1)) ELSE s

Strip(s) == RStrip(LStrip(s))

LowerChar(c) == CASE c = "Y" -> "y" [] c = "N" -> "n" [] OTHER -> c

Lower(s) == [i \in 1..Len(s) |-> LowerChar(s[i])]

\* str.rfind('.'): the last index of a dot, 0 when there is none (1-based)
RFindDot(name) ==
    IF \E i \in 1..Len(name) : name[i] = "."
    THEN CHOOSE i \in 1..Len(name) :
            name[i] = "." /\ \A j \in (i+1)..Len(name) : name[j] # "."
    ELSE 0

\* pathlib: the final suffix exists when the last dot is neither first nor last
HasSuffix(name) == RFindDot(name) > 1 /\ RFindDot(name) < Len(name)

PathSuffix(name) == IF HasSuffix(name) THEN SubSeq(name, RFindDot(name), Len(name)) ELSE <<>>

PathStem(name) == IF HasSuffix(name) THEN SubSeq(name, 1, RFindDot(name) - 1) ELSE name

----------------------------------------------------------------------------
(* Literals of the source *)
S_en == <<"e", "n">>
S_zh == <<"z", "h">>
S_dot_en == <<".", "e", "n">>
S_dot_zh_cn == <<".", "z", "h", "-", "c", "n">>
S_dot_md == <<".", "m", "d">>
S_y == <<"y">>
EnDir == "content/en/posts"
ZhDir == "content/zh-cn/posts"
NoExit == 0 - 1

----------------------------------------------------------------------------
(* translate_text: the endpoint's answer and what the call makes of it *)

TextChars == {" ", "a"}

Texts == UNION {[1..n -> TextChars] : n \in 0..MaxTextLen}

Choice(t) == [message |-> [content |-> t]]

ChoiceLists ==
    {<<>>} \cup {<<Choice(t)>> : t \in Texts}
           \cup {<<Choice(t), Choice(u)>> : t \in Texts, u \in Texts}

EmptyJson == [k \in {} |-> <<>>]

\* the decoded JSON object of a response: a dict with some of the two keys
JsonObjects ==
    {EmptyJson}
    \cup {("choices" :> c) : c \in ChoiceLists}
    \cup {("content" :> t) : t \in Texts}
    \cup {("choices" :> c) @@ ("content" :> t) : c \in ChoiceLists, t \in Texts}

Statuses == {200, 201, 300, 404, 500}

MkResponse(st, isj, j) == [received |-> TRUE, status |-> st, is_json |-> isj, json |-> j]

\* requests.post raised (connection error, timeout): there is no response
TransportFailure == [received |-> FALSE, status |-> 0, is_json |-> FALSE, json |-> EmptyJson]

Responses ==
    {TransportFailure}
    \cup {MkResponse(st, TRUE, j) : st \in Statuses, j \in JsonObjects}
    \cup {MkResponse(st, FALSE, EmptyJson) : st \in Statuses}

Returned(t) == [raised |-> FALSE, error |-> "", value |-> t, carried |-> EmptyJson]

Raised(e, j) == [raised |-> TRUE, error |-> e, value |-> <<>>, carried |-> j]

NoResult == [raised |-> FALSE, error |-> "not called", value |-> <<>>, carried |-> EmptyJson]

\* faulty variant: only server errors raise
RaiseForStatus_ServerOnly(st) == 500 <= st /\ st < 600

\* Response.raise_for_status: an HTTPError for a 4xx or 5xx status
RaiseForStatus(st) == 400 <= st /\ st < 600

\* faulty variant: the flat `content` shape is tried before `choices`
TranslateText_ContentFirst(r) ==
    IF ~r.received THEN Raised("RequestException", EmptyJson)
    ELSE IF RaiseForStatus(r.status) THEN Raised("HTTPError", EmptyJson)
    ELSE IF ~r.is_json THEN Raised("JSONDecodeError", EmptyJson)
    ELSE IF "content" \in DOMAIN r.json
         THEN Returned(Strip(r.json["content"]))
    ELSE IF "choices" \in DOMAIN r.json /\ Len(r.json["choices"]) > 0
         THEN Returned(Strip(r.json["choices"][1].message.content))
    ELSE Raised("ValueError: Unexpected API response format", r.json)

\* lines 91-107 (translate_local.py 84-100): from the POST to the return or raise
TranslateText(r) ==
    IF ~r.received THEN Raised("RequestException", EmptyJson)
    ELSE IF RaiseForStatus(r.status) THEN Raised("HTTPError", EmptyJson)
    ELSE IF ~r.is_json THEN Raised("JSONDecodeError", EmptyJson)
    ELSE IF "choices" \in DOMAIN r.json /\ Len(r.json["choices"]) > 0
         THEN Returned(Strip(r.json["choices"][1].message.content))
    ELSE IF "content" \in DOMAIN r.json
         THEN Returned(Strip(r.json["content"]))
    ELSE Raised("ValueError: Unexpected API response format", r.json)

\* lang_map.get(code, default), lines 58-65
LangName(code, default) ==
    IF code = S_en THEN "English"
    ELSE IF code = S_zh \/ code = <<"z", "h", "-", "c", "n">> THEN "Simplified Chinese"
    ELSE default

\* what a call of translate_text sends: the prompt's three holes
Prompt(text, src, tgt) ==
    [text |-> text,
     source_name |-> LangName(src, "English"),
     target_name |-> LangName(tgt, "Simplified Chinese")]

----------------------------------------------------------------------------
(* Posts, paths and the file system *)

SourceValue(k) ==
    CASE k = "title" -> <<"T">> [] k = "description" -> <<"D">> [] OTHER -> <<"2", "4">>

\* a parsed markdown file: frontmatter mapping and body
MkPost(keys) == [metadata |-> [k \in keys |-> SourceValue(k)], content |-> <<"B">>]

\* frontmatter with and without each translated key, beside an untranslated one
SamplePosts == {MkPost(keys \cup {"date"}) : keys \in SUBSET {"title", "description"}}

NoPost == [metadata |-> [k \in {} |-> <<>>], content |-> <<>>]

Names ==
    { <<"a">> \o S_dot_md,
      <<"a">> \o S_dot_zh_cn \o S_dot_md,
      <<"b">> \o S_dot_en \o S_dot_md,
      <<"n", "o", "t", "e", "s">> }

MkPath(dir, name) == [parent |-> dir, name |-> name]

PathUniverse == {MkPath(EnDir, n) : n \in Names} \cup {MkPath(ZhDir, <<"a">> \o S_dot_md)}

NoPath == MkPath("", <<>>)

\* detect_language: whatever langdetect answers, or 'en' when it throws
LangCodes == { S_en, S_zh \o <<"-", "c", "n">>, S_zh \o <<"-", "t", "w">>, <<"f", "r">> }

\* the answers typed at an input() prompt
Answers == { <<"y">>, <<"Y">>, <<"n">>, <<>> }

\* glob.glob(dir + '/*.md'): the files of dir that match, hidden files excluded
Glob(dir) ==
    {p \in DOMAIN fs : p.parent = dir /\ EndsWith(p.name, S_dot_md) /\ Head(p.name) # "."}

\* the orders in which a directory listing can come back
Orderings(S) ==
    {q \in [1..Cardinality(S) -> S] : \A i, j \in 1..Cardinality(S) : i # j => q[i] # q[j]}

\* faulty variant: only the `.en` suffix is recognised
HasLangSuffix_OnlyEn(p) == EndsWith(PathStem(p.name), S_dot_en)

\* lines 197-198: the stem already carries a language suffix
HasLangSuffix(p) == EndsWith(PathStem(p.name), S_dot_en) \/ EndsWith(PathStem(p.name), S_dot_zh_cn)

\* lines 160-161: parent / (stem + new_lang_suffix + suffix)
OutputPath(p, suffix) == MkPath(p.parent, PathStem(p.name) \o suffix \o PathSuffix(p.name))

\* faulty variant: the detected code is compared with 'zh' instead of tested for the prefix
LanguagePair_ExactZh(code) ==
    IF code = S_zh
    THEN [source_lang |-> S_zh, target_lang |-> S_en, new_lang_suffix |-> <<>>]
    ELSE [source_lang |-> S_en, target_lang |-> S_zh, new_lang_suffix |-> S_dot_zh_cn]

\* lines 129-136: (source_lang, target_lang, new_lang_suffix) of a detected code
LanguagePair(code) ==
    IF StartsWith(code, S_zh)
    THEN [source_lang |-> S_zh, target_lang |-> S_en, new_lang_suffix |-> <<>>]
    ELSE [source_lang |-> S_en, target_lang |-> S_zh, new_lang_suffix |-> S_dot_zh_cn]

CredentialsLoaded == {"GEMINI_API_KEY", "GEMINI_ENDPOINT"} \subseteq env

----------------------------------------------------------------------------
(* Initial states *)

NoArgv == [filepath |-> NoPath, no_review |-> FALSE]

NoAnswer == [given |-> FALSE, text |-> <<>>]

Typed(answer) == [given |-> TRUE, text |-> answer]

IdleCall ==
    /\ filepath = NoPath
    /\ post = NoPost
    /\ lang = <<>>
    /\ source_lang = <<>>
    /\ target_lang = <<>>
    /\ new_lang_suffix = <<>>
    /\ output_path = NoPath
    /\ requests = <<>>
    /\ prompted = FALSE
    /\ wrote = FALSE
    /\ overwrite_answer = NoAnswer

IdleMain ==
    /\ all_posts = <<>>
    /\ idx = 0
    /\ translated_count = 0
    /\ failed_count = 0
    /\ visited = <<>>

Init ==
    /\ script \in {"batch", "local"}
    /\ env \in SUBSET {"GEMINI_API_KEY", "GEMINI_ENDPOINT"}
    /\ \E D \in SUBSET PathUniverse :
          /\ Cardinality(D) <= MaxFiles
          /\ fs \in [D -> SamplePosts]
    /\ argv \in IF script = "batch" THEN {NoArgv}
                ELSE [filepath : PathUniverse, no_review : BOOLEAN]
    /\ pc = "main"
    /\ IdleMain
    /\ IdleCall
    /\ fsAtCall = fs
    /\ reported = FALSE
    /\ review_read = "none"
    /\ exit_code = NoExit
    /\ tt_response = TransportFailure
    /\ tt_result = NoResult

----------------------------------------------------------------------------
(* process_file (translate_content.py) and translate_file (translate_local.py) *)

\* the endpoint answers a call of the pipeline can get
PipelineResponses ==
    { TransportFailure,
      MkResponse(500, FALSE, EmptyJson),
      MkResponse(404, TRUE, "content" :> <<"a">>),
      MkResponse(200, TRUE, EmptyJson),
      MkResponse(200, TRUE, "choices" :> <<Choice(<<" ", "a">>)>>),
      MkResponse(200, TRUE, "content" :> <<"a", " ">>),
      MkResponse(300, TRUE, "content" :> <<"a">>) }

\* one call of translate_text, as the request log keeps it
LogEntry(field, text, r, res) ==
    [field |-> field,
     prompt |-> Prompt(text, source_lang, target_lang),
     received |-> r.received,
     status |-> r.status,
     raised |-> res.raised,
     value |-> res.value]

\* open(path, 'w') and f.write(frontmatter.dumps(post))
WriteFile(files, path, p) ==
    [q \in (DOMAIN files) \cup {path} |-> IF q = path THEN p ELSE files[q]]

\* lines 122-139 (translate_local.py 110-138): open, parse, detect, choose the pair
Load ==
    /\ pc = "load"
    /\ IF filepath \notin DOMAIN fs
       THEN /\ pc' = "raised"
            /\ UNCHANGED <<post, pairVars>>
       ELSE \E code \in LangCodes :
            /\ post' = fs[filepath]
            /\ lang' = code
            /\ source_lang' = LanguagePair(code).source_lang
            /\ target_lang' = LanguagePair(code).target_lang
            /\ new_lang_suffix' = LanguagePair(code).new_lang_suffix
            /\ pc' = "body"
    /\ UNCHANGED <<fixedVars, fs, mainVars, filepath, requests, outVars, fsAtCall, endVars, ttVars>>

\* lines 141-145 (translate_local.py 140-142): translate the body
TranslateBody ==
    /\ pc = "body"
    /\ \E r \in PipelineResponses :
          LET res == TranslateText(r) IN
          /\ requests' = Append(requests, LogEntry("content", post.content, r, res))
          /\ IF res.raised
             THEN pc' = "raised" /\ post' = post
             ELSE pc' = "title" /\ post' = [post EXCEPT !.content = res.value]
    /\ UNCHANGED <<fixedVars, fs, mainVars, filepath, pairVars, outVars, fsAtCall, endVars, ttVars>>

\* faulty variant: the key is translated and stored whether or not the frontmatter has it
TranslateMetadata_AddsKey(key, next) ==
    /\ \E r \in PipelineResponses :
          LET res == TranslateText(r)
              old == IF key \in DOMAIN post.metadata THEN post.metadata[key] ELSE <<>>
          IN
          /\ requests' = Append(requests, LogEntry(key, old, r, res))
          /\ IF res.raised
             THEN pc' = "raised" /\ post' = post
             ELSE /\ pc' = next
                  /\ post' = [post EXCEPT !.metadata = (key :> res.value) @@ post.metadata]
    /\ UNCHANGED <<fixedVars, fs, mainVars, filepath, pairVars, outVars, fsAtCall, endVars, ttVars>>

\* faulty variant: a failed translation of the key is swallowed and the pipeline goes on
TranslateMetadata_KeepsGoing(key, next) ==
    /\ IF key \in DOMAIN post.metadata
       THEN \E r \in PipelineResponses :
               LET res == TranslateText(r) IN
               /\ requests' = Append(requests, LogEntry(key, post.metadata[key], r, res))
               /\ pc' = next
               /\ post' = IF res.raised THEN post
                          ELSE [post EXCEPT !.metadata[key] = res.value]
       ELSE pc' = next /\ UNCHANGED <<post, requests>>
    /\ UNCHANGED <<fixedVars, fs, mainVars, filepath, pairVars, outVars, fsAtCall, endVars, ttVars>>

\* "if key in post.metadata: post.metadata[key] = translate_text(post.metadata[key], ...)"
TranslateMetadata(key, next) ==
    /\ IF key \in DOMAIN post.metadata
       THEN \E r \in PipelineResponses :
               LET res == TranslateText(r) IN
               /\ requests' = Append(requests, LogEntry(key, post.metadata[key], r, res))
               /\ IF res.raised
                  THEN pc' = "raised" /\ post' = post
                  ELSE pc' = next /\ post' = [post EXCEPT !.metadata[key] = res.value]
       ELSE pc' = next /\ UNCHANGED <<post, requests>>
    /\ UNCHANGED <<fixedVars, fs, mainVars, filepath, pairVars, outVars, fsAtCall, endVars, ttVars>>

\* lines 147-151 (translate_local.py 144-150)
TranslateTitle == pc = "title" /\ TranslateMetadata("title", "description")

\* lines 153-157 (translate_local.py 152-158)
TranslateDescription == pc = "description" /\ TranslateMetadata("description", "output")

\* translate_content.py lines 159-168: compute the output path and write, no check
BatchWrite ==
    /\ pc = "output"
    /\ script = "batch"
    /\ output_path' = OutputPath(filepath, new_lang_suffix)
    /\ fs' = WriteFile(fs, output_path', post)
    /\ wrote' = TRUE
    /\ pc' = "returned"
    /\ UNCHANGED <<fixedVars, mainVars, filepath, post, pairVars, requests, prompted,
                   overwrite_answer, fsAtCall, endVars, ttVars>>

\* faulty variant: the early return of a declined overwrite is missing
Declined_Never(answer) == FALSE

\* response != 'y', line 167, of an answer already lower-cased at line 166
Declined(answer) == Lower(answer) # S_y

\* translate_local.py lines 160-176: output path, overwrite prompt, write
LocalWrite ==
    /\ pc = "output"
    /\ script = "local"
    /\ output_path' = OutputPath(filepath, new_lang_suffix)
    /\ IF output_path' \in DOMAIN fs
       THEN /\ prompted' = TRUE
            /\ \/ \E answer \in Answers :
                     /\ overwrite_answer' = Typed(answer)
                     /\ pc' = "returned"
                     /\ IF Declined(answer)
                        THEN UNCHANGED <<fs, wrote>>
                        ELSE fs' = WriteFile(fs, output_path', post) /\ wrote' = TRUE
               \/ \* input() raises EOFError: standard input is at its end
                  pc' = "raised" /\ UNCHANGED <<fs, wrote, overwrite_answer>>
       ELSE /\ fs' = WriteFile(fs, output_path', post)
            /\ wrote' = TRUE
            /\ pc' = "returned"
            /\ UNCHANGED <<prompted, overwrite_answer>>
    /\ UNCHANGED <<fixedVars, mainVars, filepath, post, pairVars, requests, fsAtCall, endVars, ttVars>>

----------------------------------------------------------------------------
(* translate_content.py: main *)

ResetCall ==
    /\ filepath' = NoPath
    /\ post' = NoPost
    /\ lang' = <<>>
    /\ source_lang' = <<>>
    /\ target_lang' = <<>>
    /\ new_lang_suffix' = <<>>
    /\ output_path' = NoPath
    /\ requests' = <<>>
    /\ prompted' = FALSE
    /\ wrote' = FALSE
    /\ overwrite_answer' = NoAnswer
    /\ fsAtCall' = fs

Visit(file, outcome) == Append(visited, [file |-> file, outcome |-> outcome])

\* faulty variant: one failure is tolerated
SummaryStatus_OffByOne(failed) == IF failed > 1 THEN 1 ELSE 0

\* lines 218-219: the exit status after the summary
SummaryStatus(failed) == IF failed > 0 THEN 1 ELSE 0

\* lines 173-192: credentials, the two globs, the early return, the counters
BatchStart ==
    /\ pc = "main"
    /\ script = "batch"
    /\ IF ~CredentialsLoaded
       THEN \* ValueError out of main: the interpreter exits with status 1
            /\ pc' = "exited"
            /\ exit_code' = 1
            /\ UNCHANGED mainVars
       ELSE \E en_posts \in Orderings(Glob(EnDir)), zh_posts \in Orderings(Glob(ZhDir)) :
            /\ all_posts' = en_posts \o zh_posts
            /\ IF all_posts' = <<>>
               THEN pc' = "exited" /\ exit_code' = 0 /\ idx' = idx
               ELSE pc' = "loop" /\ exit_code' = exit_code /\ idx' = 1
            /\ translated_count' = 0
            /\ failed_count' = 0
            /\ visited' = visited
    /\ UNCHANGED <<fixedVars, fs, callVars, reported, review_read, ttVars>>

\* lines 194-200: a file that already has a language suffix is skipped
BatchSkip ==
    /\ pc = "loop"
    /\ idx <= Len(all_posts)
    /\ HasLangSuffix(all_posts[idx])
    /\ visited' = Visit(all_posts[idx], "skipped")
    /\ idx' = idx + 1
    /\ UNCHANGED <<fixedVars, fs, pc, all_posts, translated_count, failed_count, callVars,
                   endVars, ttVars>>

\* line 202: process_file is entered
BatchCall ==
    /\ pc = "loop"
    /\ idx <= Len(all_posts)
    /\ ~HasLangSuffix(all_posts[idx])
    /\ filepath' = all_posts[idx]
    /\ fsAtCall' = fs
    /\ pc' = "load"
    /\ UNCHANGED <<fixedVars, fs, mainVars, post, pairVars, requests, outVars, endVars, ttVars>>

\* lines 202-203, 210: process_file returned
BatchReturn ==
    /\ pc = "returned"
    /\ script = "batch"
    /\ translated_count' = translated_count + 1
    /\ visited' = Visit(filepath, "translated")
    /\ idx' = idx + 1
    /\ pc' = "loop"
    /\ ResetCall
    /\ UNCHANGED <<fixedVars, fs, all_posts, failed_count, endVars, ttVars>>

\* faulty variant: no try/except around the loop body, the exception ends main
BatchCatch_Abort ==
    /\ pc = "raised"
    /\ script = "batch"
    /\ exit_code' = 1
    /\ pc' = "exited"
    /\ UNCHANGED <<fixedVars, fs, mainVars, callVars, reported, review_read, ttVars>>

\* lines 205-208: process_file raised
BatchCatch ==
    /\ pc = "raised"
    /\ script = "batch"
    /\ failed_count' = failed_count + 1
    /\ visited' = Visit(filepath, "failed")
    /\ idx' = idx + 1
    /\ pc' = "loop"
    /\ ResetCall
    /\ UNCHANGED <<fixedVars, fs, all_posts, translated_count, endVars, ttVars>>

\* lines 212-219: the loop is over, summary and exit status
BatchSummary ==
    /\ pc = "loop"
    /\ idx > Len(all_posts)
    /\ exit_code' = SummaryStatus(failed_count)
    /\ pc' = "exited"
    /\ UNCHANGED <<fixedVars, fs, mainVars, callVars, reported, review_read, ttVars>>

----------------------------------------------------------------------------
(* translate_local.py: main *)

\* lines 195-199: credentials, then translate_file is entered
LocalStart ==
    /\ pc = "main"
    /\ script = "local"
    /\ IF ~CredentialsLoaded
       THEN \* ValueError, caught at line 221
            /\ pc' = "exited"
            /\ exit_code' = 1
            /\ UNCHANGED filepath
       ELSE /\ filepath' = argv.filepath
            /\ pc' = "load"
            /\ UNCHANGED exit_code
    /\ UNCHANGED <<fixedVars, fs, mainVars, post, pairVars, requests, outVars, fsAtCall, reported,
                   review_read, ttVars>>

\* lines 199-219: translate_file returned; report, review prompt, normal end
LocalReturn ==
    /\ pc = "returned"
    /\ script = "local"
    /\ reported' = TRUE
    /\ pc' = "exited"
    /\ IF argv.no_review
       THEN exit_code' = 0 /\ UNCHANGED review_read
       ELSE \/ \E answer \in Answers : exit_code' = 0 /\ review_read' = "answered"
            \/ \* input() raises EOFError, caught at line 221
               exit_code' = 1 /\ review_read' = "eof"
    /\ UNCHANGED <<fixedVars, fs, mainVars, callVars, ttVars>>

\* lines 221-223: translate_file raised
LocalCatch ==
    /\ pc = "raised"
    /\ script = "local"
    /\ exit_code' = 1
    /\ pc' = "exited"
    /\ UNCHANGED <<fixedVars, fs, mainVars, callVars, reported, review_read, ttVars>>

----------------------------------------------------------------------------
(* The scripts *)

Next ==
    \/ BatchStart
    \/ BatchSkip
    \/ BatchCall
    \/ BatchReturn
    \/ BatchCatch
    \/ BatchSummary
    \/ LocalStart
    \/ LocalReturn
    \/ LocalCatch
    \/ Load
    \/ TranslateBody
    \/ TranslateTitle
    \/ TranslateDescription
    \/ BatchWrite
    \/ LocalWrite

Spec == Init /\ [][Next]_vars

----------------------------------------------------------------------------
(* translate_text on its own: every response, one call *)

InitText ==
    /\ script = "local"
    /\ env = {"GEMINI_API_KEY", "GEMINI_ENDPOINT"}
    /\ fs = [q \in {} |-> NoPost]
    /\ argv = NoArgv
    /\ pc = "translate_text"
    /\ IdleMain
    /\ IdleCall
    /\ fsAtCall = fs
    /\ reported = FALSE
    /\ review_read = "none"
    /\ exit_code = NoExit
    /\ tt_response \in Responses
    /\ tt_result = NoResult

CallTranslateText ==
    /\ pc = "translate_text"
    /\ tt_result' = TranslateText(tt_response)
    /\ pc' = "translate_text done"
    /\ UNCHANGED <<fixedVars, fs, mainVars, callVars, endVars, tt_response>>

NextText == CallTranslateText

SpecText == InitText /\ [][NextText]_vars

----------------------------------------------------------------------------
(* Properties *)

Fields(log) == [i \in 1..Len(log) |-> log[i].field]

CountOutcome(o) == Cardinality({i \in 1..Len(visited) : visited[i].outcome = o})

\* the name is x + suf + final extension, i.e. its stem ends in suf
StemEndsIn(n, suf) ==
    \E i \in 1..Len(n) :
        /\ EndsWith(SubSeq(n, 1, i), suf)
        /\ i + 1 < Len(n)
        /\ n[i + 1] = "."
        /\ \A j \in (i + 2)..Len(n) : n[j] # "."

IsTranslationOutput(p) ==
    StemEndsIn(p.name, <<".", "e", "n">>) \/ StemEndsIn(p.name, <<".", "z", "h", "-", "c", "n">>)

DetectedChinese == Len(lang) >= 2 /\ lang[1] = "z" /\ lang[2] = "h"

Loaded == lang # <<>>

\* the requests a file with this frontmatter is due
Expected(p) ==
    <<"content">>
    \o (IF "title" \in DOMAIN p.metadata THEN <<"title">> ELSE <<>>)
    \o (IF "description" \in DOMAIN p.metadata THEN <<"description">> ELSE <<>>)

\* v is t without its leading and trailing whitespace
IsTrimOf(v, t) ==
    /\ v = <<>> \/ (v[1] \notin {" ", "\n"} /\ v[Len(v)] \notin {" ", "\n"})
    /\ \E a \in 0..Len(t) :
          /\ a + Len(v) <= Len(t)
          /\ SubSeq(t, a + 1, a + Len(v)) = v
          /\ \A i \in (1..a) \cup ((a + Len(v) + 1)..Len(t)) : t[i] \in {" ", "\n"}

\* C1: in the batch loop a failing file never aborts the run: the files are
\* visited once each in list order, and when the loop has ended
\* translated_count and failed_count are the numbers of files whose
\* process_file returned and raised, and with the skipped files they add up
\* to the number of discovered files.
C1_FailureDoesNotAbort ==
    script = "batch" =>
        /\ Len(visited) <= Len(all_posts)
        /\ \A i \in 1..Len(visited) : visited[i].file = all_posts[i]
        /\ translated_count = CountOutcome("translated")
        /\ failed_count = CountOutcome("failed")
        /\ pc = "loop" => Len(visited) = idx - 1
        /\ (pc = "exited" /\ CredentialsLoaded) =>
              /\ Len(visited) = Len(all_posts)
              /\ translated_count + failed_count + CountOutcome("skipped") = Len(all_posts)

C1_Witness ==
    /\ script = "batch"
    /\ pc = "exited"
    /\ Len(visited) = 2
    /\ visited[1].outcome = "failed"
    /\ visited[2].outcome = "translated"

\* C2: once the credentials are loaded the batch script exits with status 1
\* exactly when some file failed, and with status 0 otherwise (no file
\* discovered and every file skipped included).
C2_ExitStatus ==
    (script = "batch" /\ pc = "exited" /\ CredentialsLoaded) =>
        /\ exit_code \in {0, 1}
        /\ exit_code = 1 <=> failed_count > 0
        /\ exit_code = 1 <=> \E i \in 1..Len(visited) : visited[i].outcome = "failed"

C2_Witness ==
    /\ script = "batch"
    /\ pc = "exited"
    /\ CredentialsLoaded
    /\ failed_count = 1
    /\ translated_count = 1
    /\ exit_code = 1

\* C3: in a batch run a file whose stem ends in .en or .zh-cn is never a
\* batch input: process_file is not entered for it (so no request and no
\* write is made for it) and it counts neither as translated nor as failed.
C3_SuffixedNeverInput ==
    script = "batch" =>
        /\ filepath # NoPath => ~IsTranslationOutput(filepath)
        /\ \A i \in 1..Len(visited) :
              IsTranslationOutput(visited[i].file) <=> visited[i].outcome = "skipped"
        /\ translated_count + failed_count =
              Cardinality({i \in 1..Len(visited) : ~IsTranslationOutput(visited[i].file)})

C3_Witness ==
    /\ script = "batch"
    /\ pc = "exited"
    /\ \E i, j \in 1..Len(visited) :
          /\ visited[i].outcome = "skipped"
          /\ visited[i].file.name = <<"a">> \o S_dot_zh_cn \o S_dot_md
          /\ visited[j].outcome = "translated"

ErrorAnswer(e) == ~e.received \/ e.status \in 400..599

Non2xxAnswer(e) == ~e.received \/ e.status \notin 200..299

C5_LanguagePair ==
    Loaded =>
        /\ IF DetectedChinese
           THEN /\ source_lang = <<"z", "h">>
                /\ target_lang = <<"e", "n">>
                /\ new_lang_suffix = <<>>
                /\ \A i \in 1..Len(requests) :
                      /\ requests[i].prompt.source_name = "Simplified Chinese"
                      /\ requests[i].prompt.target_name = "English"
           ELSE /\ source_lang = <<"e", "n">>
                /\ target_lang = <<"z", "h">>
                /\ new_lang_suffix = <<".", "z", "h", "-", "c", "n">>
                /\ \A i \in 1..Len(requests) :
                      /\ requests[i].prompt.source_name = "English"
                      /\ requests[i].prompt.target_name = "Simplified Chinese"
        /\ output_path # NoPath =>
              /\ output_path.parent = filepath.parent
              /\ output_path.name =
                    PathStem(filepath.name) \o new_lang_suffix \o PathSuffix(filepath.name)
              /\ (filepath.name = <<"a", ".", "m", "d">> /\ ~DetectedChinese) =>
                    output_path.name = <<"a", ".", "z", "h", "-", "c", "n", ".", "m", "d">>
              /\ (filepath.name = <<"n", "o", "t", "e", "s">> /\ ~DetectedChinese) =>
                    output_path.name = <<"n", "o", "t", "e", "s", ".", "z", "h", "-", "c", "n">>

C5_Witness ==
    /\ pc = "returned"
    /\ wrote
    /\ lang = <<"z", "h", "-", "t", "w">>
    /\ target_lang = S_en
    /\ Len(requests) = 2

\* C6: the output path written is different from the input path, so the
\* source file is unchanged by the operation.
C6_WritesNewFile ==
    wrote => (output_path # filepath /\ fs[filepath] = fsAtCall[filepath])

\* C7: the Post written has the input's frontmatter keys, every key other
\* than title and description keeps its value, and title / description hold
\* the translation of the input's value when the input has them.
C7_FrontmatterPreserved ==
    wrote =>
        LET input == fsAtCall[filepath]
            output == fs[output_path]
        IN  /\ DOMAIN output.metadata = DOMAIN input.metadata
            /\ \A k \in DOMAIN input.metadata \ {"title", "description"} :
                  output.metadata[k] = input.metadata[k]
            /\ \A k \in DOMAIN input.metadata \cap {"title", "description"} :
                  \E i \in 1..Len(requests) :
                      /\ requests[i].field = k
                      /\ requests[i].prompt.text = input.metadata[k]
                      /\ ~requests[i].raised
                      /\ output.metadata[k] = requests[i].value

C7_Witness ==
    /\ wrote
    /\ pc = "returned"
    /\ DOMAIN fsAtCall[filepath].metadata = {"title", "date"}
    /\ fs[output_path].metadata["title"] = <<"a">>
    /\ fs[output_path].metadata["date"] = <<"2", "4">>

\* C8 (as amended): translate_local.py prompts exactly when the output path
\* exists; an answer that is not y in either case leaves the existing file
\* alone, translate_file returns and the run is reported complete, with
\* status 0 unless reading the review answer fails.  translate_content.py
\* never prompts and always writes.
C8_DeclinedOverwrite ==
    /\ (script = "local" /\ output_path # NoPath) =>
          (prompted <=> output_path \in DOMAIN fsAtCall)
    /\ (script = "local" /\ overwrite_answer.given
          /\ overwrite_answer.text \notin {<<"y">>, <<"Y">>}) =>
          /\ prompted
          /\ ~wrote
          /\ fs = fsAtCall
          /\ pc \in {"returned", "exited"}
          /\ pc = "exited" =>
                /\ reported
                /\ exit_code = IF review_read = "eof" THEN 1 ELSE 0
    /\ script = "batch" =>
          /\ ~prompted
          /\ pc = "returned" => (wrote /\ fs[output_path] = post)

\* C8 as stated: of every answer other than y itself, and with status 0
\* (taken where the existing output is another file than the source).
C8_Original ==
    (script = "local" /\ overwrite_answer.given /\ overwrite_answer.text # <<"y">>
        /\ output_path # filepath) =>
        /\ ~wrote
        /\ fs = fsAtCall
        /\ pc \in {"returned", "exited"}
        /\ pc = "exited" => (reported /\ exit_code = 0)

C8_Witness ==
    /\ script = "local"
    /\ prompted
    /\ overwrite_answer = Typed(<<"n">>)
    /\ pc = "exited"
    /\ reported
    /\ exit_code = 0
    /\ fs = fsAtCall

\* C9: of a 2xx response with a JSON object, translate_text returns the first
\* choice's message content trimmed when choices is non-empty, else the
\* top-level content trimmed when there is one, and with neither key it
\* raises the unexpected-format error carrying the response.
C9_ResponseShapes ==
    (pc = "translate_text done" /\ tt_response.received
        /\ tt_response.status \in 200..299 /\ tt_response.is_json) =>
        LET j == tt_response.json
            hasChoices == "choices" \in DOMAIN j
            hasContent == "content" \in DOMAIN j
        IN  /\ (hasChoices /\ j["choices"] # <<>>) =>
                  /\ ~tt_result.raised
                  /\ IsTrimOf(tt_result.value, j["choices"][1].message.content)
            /\ (~(hasChoices /\ j["choices"] # <<>>) /\ hasContent) =>
                  /\ ~tt_result.raised
                  /\ IsTrimOf(tt_result.value, j["content"])
            /\ (~hasChoices /\ ~hasContent) =>
                  /\ tt_result.raised
                  /\ tt_result.error = "ValueError: Unexpected API response format"
                  /\ tt_result.carried = j

C9_Witness ==
    /\ pc = "translate_text done"
    /\ tt_response.status = 200
    /\ tt_response.is_json
    /\ DOMAIN tt_response.json = {"choices", "content"}
    /\ Len(tt_response.json["choices"]) = 2
    /\ tt_response.json["choices"][1].message.content = <<" ", "a", " ">>
    /\ tt_response.json["choices"][2].message.content = <<"a", "a">>
    /\ tt_response.json["content"] = <<"a", " ", "a">>
    /\ tt_result = Returned(<<"a">>)

\* C10: a file's requests go out one after the other, body, then title if
\* present, then description if present, each once; after a failed request
\* none follows; the write and the overwrite prompt come after all of them
\* succeeded.
C10_RequestsInSequence ==
    Loaded =>
        LET due == Expected(fsAtCall[filepath])
            n == Len(requests)
        IN  /\ n <= Len(due)
            /\ \A i \in 1..n : requests[i].field = due[i]
            /\ \A i \in 1..(n - 1) : ~requests[i].raised
            /\ (n > 0 /\ requests[n].raised) => pc \in {"raised", "exited"}
            /\ (wrote \/ prompted \/ pc \in {"output", "returned"}) =>
                  /\ n = Len(due)
                  /\ \A i \in 1..n : ~requests[i].raised
            /\ pc \notin {"body"} => (1 <= n /\ n <= 3)

C10_Witness ==
    /\ pc = "returned"
    /\ wrote
    /\ prompted
    /\ Fields(requests) = <<"content", "title", "description">>

====
